---- MODULE Spec2Model ----
(***************************************************************************)
(* A model of src/secret_manager/installer.py: the installer's three       *)
(* stages (install_dependencies, setup_files, configure_shell), main()'s   *)
(* failure boundary, and the filesystem the stages act on.  Anything the   *)
(* operating system decides (a command's exit status, an I/O error, how    *)
(* much of a write reaches the disk before it fails) is a nondeterministic *)
(* choice.                                                                 *)
(***************************************************************************)
EXTENDS Naturals, Sequences, FiniteSets

VARIABLES
  system,       \* platform.system()
  onPath,       \* the binaries shutil.which finds on the search path
  SHELL,        \* os.environ["SHELL"], or Unset
  assets,       \* the asset source files that exist in <installer>/assets
  targetDir,    \* whether ~/.secret-manager exists
  targetFiles,  \* ~/.secret-manager/<name>: absent, partial, copied or exec
  rc,           \* the shell resource files: Absent or their text
  pc,           \* where main() is
  stages,       \* the stages main() has started in this run, in order
  cmds,         \* the external commands this run has attempted
  log,          \* what log() has printed in this run
  exc,          \* the exception in flight, or NoExc
  exitCode,     \* the process's exit code, or NoExit while it runs
  rc_file,      \* configure_shell's local rc_file (None until it is chosen)
  pre,          \* the filesystem as the current run found it
  prev,         \* how the previous run ended
  runs,         \* runs of main() started so far
  faults        \* failures the environment has produced so far (a command or
                \* an I/O call failing, an asset source vanishing)

vars == <<system, onPath, SHELL, assets, targetDir, targetFiles, rc, pc, stages,
          cmds, log, exc, exitCode, rc_file, pre, prev, runs, faults>>

----------------------------------------------------------------------------
\* Bounds of the model.
MaxRuns == 2
MaxFaults == 1

----------------------------------------------------------------------------
\* Text.  SHELL is a sequence of characters; a file's text is a sequence of
\* tokens in which the marker SECRETS_MANAGER_PATH spans two tokens, so that
\* a write can stop inside it.

\* Python's `sub in s` for non-empty sub.
Contains(sub, s) ==
  \E i \in 0..Len(s) : i + Len(sub) <= Len(s) /\ SubSeq(s, i + 1, i + Len(sub)) = sub

IsPrefix(p, s) == Len(p) <= Len(s) /\ SubSeq(s, 1, Len(p)) = p

RECURSIVE Join(_, _)
\* sep.join(lines)
Join(lines, sep) ==
  IF Len(lines) = 0 THEN <<>>
  ELSE IF Len(lines) = 1 THEN lines[1]
  ELSE lines[1] \o sep \o Join(Tail(lines), sep)

GREEN == "GREEN"
YELLOW == "YELLOW"
RED == "RED"

Systems == {"Darwin", "Linux", "Windows", "FreeBSD"}
Binaries == {"brew", "apt-get", "choco"}

Unset == <<"unset">>
zsh == <<"z", "s", "h">>
bash == <<"b", "a", "s", "h">>
Shells ==
  { Unset,
    <<"/", "b", "i", "n", "/", "z", "s", "h">>,
    <<"/", "b", "i", "n", "/", "b", "a", "s", "h">>,
    <<"/", "b", "i", "n", "/", "f", "i", "s", "h">>,
    <<"/", "b", "i", "n", "/", "Z", "S", "H">>,
    <<"/", "b", "a", "s", "h", "/", "z", "s", "h">> }

\* os.environ.get("SHELL", "")
EnvGetShell == IF SHELL = Unset THEN <<>> ELSE SHELL

Absent == <<"absent">>
NL == "\n"
MarkerA == "SECRETS_MANAGER"
MarkerB == "_PATH"
Marker == <<MarkerA, MarkerB>>
UserText == <<"export EDITOR=vi", NL>>

None == "None"
RcFiles == {".zshrc", ".bash_profile", ".bashrc"}

files_to_copy == <<"manage-secrets.sh", "get-secrets.js">>
Files == {files_to_copy[i] : i \in 1..Len(files_to_copy)}
target_dir == "~/.secret-manager"

NoExc == [type |-> "none", args |-> <<>>, stage |-> "none"]
NoExit == "running"

Msg(text, args, color) == [text |-> text, args |-> args, color |-> color]
Logged(text) == \E i \in 1..Len(log) : log[i].text = text
LoggedWith(text, args) ==
  \E i \in 1..Len(log) : log[i].text = text /\ log[i].args = args

\* str(e) as the top-level handler prints it.
StrExc(e) ==
  IF e.type = "CalledProcessError"
  THEN <<"Command">> \o e.args \o <<"returned non-zero exit status">>
  ELSE <<"Errno">> \o e.args

----------------------------------------------------------------------------
\* A main() that deploys the files before it installs the dependencies.
StagesDeployFirst == <<"setup_files", "install_dependencies", "configure_shell">>

\* main(): the stages in the order the try block calls them.
Stages == <<"install_dependencies", "setup_files", "configure_shell">>

\* Where main() goes when stage s returns.
StageAfter(s) ==
  LET i == CHOOSE j \in 1..Len(Stages) : Stages[j] = s
  IN IF i < Len(Stages) THEN Stages[i + 1] ELSE "complete"

\* Where main() goes when a stage ends with exception e (NoExc: it returned).
AfterStage(s, e) == IF e = NoExc THEN StageAfter(s) ELSE "except"

----------------------------------------------------------------------------
\* install_dependencies

\* A search that reports every binary as found.
WhichAlwaysFound(name) == name \in Binaries

\* shutil.which(name)
Which(name) == name \in onPath

Outcomes == {"ok", "nonzero", "nospawn"}

\* The outcomes the environment may still produce: every one of S while its
\* budget of failures lasts, only the good one afterwards.
Budgeted(S, good) == IF faults < MaxFaults THEN S ELSE {good}

\* Both brew commands run with check=True.
BrewCommandsAllChecked ==
  << [argv |-> <<"brew", "install", "--cask", "keepassxc">>, check |-> TRUE],
     [argv |-> <<"brew", "install", "jq", "gnupg">>, check |-> TRUE] >>

BrewCommands ==
  << [argv |-> <<"brew", "install", "--cask", "keepassxc">>, check |-> FALSE],
     [argv |-> <<"brew", "install", "jq", "gnupg">>, check |-> TRUE] >>

\* The repository refresh run with check=False.
AptCommandsUpdateUnchecked ==
  << [argv |-> <<"sudo", "apt-get", "update">>, check |-> FALSE],
     [argv |-> <<"sudo", "apt-get", "install", "-y", "keepassxc", "jq", "gnupg">>,
      check |-> TRUE] >>

AptCommands ==
  << [argv |-> <<"sudo", "apt-get", "update">>, check |-> TRUE],
     [argv |-> <<"sudo", "apt-get", "install", "-y", "keepassxc", "jq", "gnupg">>,
      check |-> TRUE] >>

ChocoCommands ==
  << [argv |-> <<"choco", "install", "keepassxc", "jq", "gnupg", "-y">>,
      check |-> TRUE] >>

\* subprocess.run(argv, check=...): the exception it raises, or NoExc.  A
\* process that cannot be spawned raises whatever check is; a non-zero exit
\* raises CalledProcessError only under check=True.
SubprocessRun(c, outcome) ==
  IF outcome = "nospawn"
  THEN [type |-> "OSError", args |-> <<c.argv[1]>>, stage |-> "install_dependencies"]
  ELSE IF outcome = "nonzero" /\ c.check
  THEN [type |-> "CalledProcessError", args |-> c.argv,
        stage |-> "install_dependencies"]
  ELSE NoExc

RECURSIVE RunAll(_, _, _)
\* The commands from the i-th on, run one after the other until one raises.
RunAll(commands, outs, i) ==
  IF i > Len(commands) THEN [ran |-> <<>>, exc |-> NoExc]
  ELSE LET c == commands[i]
           r == [argv |-> c.argv, check |-> c.check, outcome |-> outs[i]]
           e == SubprocessRun(c, outs[i])
       IN IF e # NoExc THEN [ran |-> <<r>>, exc |-> e]
          ELSE LET rest == RunAll(commands, outs, i + 1)
               IN [ran |-> <<r>> \o rest.ran, exc |-> rest.exc]

\* What install_dependencies logs and which commands it runs.
DepsPlan ==
  LET detected == <<Msg("Detected OS", <<system>>, GREEN)>>
      manual(what, last) ==
        Msg(what, <<"keepassxc", "jq", last>>, RED)
  IN IF system = "Darwin" THEN
       IF Which("brew")
       THEN [logs |-> detected \o <<Msg("Installing dependencies via Homebrew", <<>>, YELLOW)>>,
             commands |-> BrewCommands]
       ELSE [logs |-> detected \o <<manual("Homebrew not found. Please install manually", "gnupg")>>,
             commands |-> <<>>]
     ELSE IF system = "Linux" THEN
       IF Which("apt-get")
       THEN [logs |-> detected \o <<Msg("Installing dependencies via apt-get", <<>>, YELLOW)>>,
             commands |-> AptCommands]
       ELSE [logs |-> detected \o <<manual("apt-get not found. Please install manually", "gnupg")>>,
             commands |-> <<>>]
     ELSE IF system = "Windows" THEN
       IF Which("choco")
       THEN [logs |-> detected \o <<Msg("Windows detected. Please ensure Chocolatey is installed", <<>>, YELLOW)>>,
             commands |-> ChocoCommands]
       ELSE [logs |-> detected
                      \o <<Msg("Windows detected. Please ensure Chocolatey is installed", <<>>, YELLOW),
                           manual("Chocolatey not found. Please install manually", "gpg4win")>>,
             commands |-> <<>>]
     ELSE [logs |-> detected \o <<Msg("Unsupported OS. Please manually install", <<system, "keepassxc", "jq", "gnupg">>, RED)>>,
           commands |-> <<>>]

Failures(ran) == Cardinality({i \in 1..Len(ran) : ran[i].outcome # "ok"})

InstallDependencies ==
  /\ pc = "install_dependencies"
  /\ \E outs \in [1..Len(DepsPlan.commands) -> Budgeted(Outcomes, "ok")] :
       LET r == RunAll(DepsPlan.commands, outs, 1)
       IN /\ faults + Failures(r.ran) <= MaxFaults
          /\ faults' = faults + Failures(r.ran)
          /\ cmds' = r.ran
          /\ exc' = r.exc
          /\ pc' = AfterStage("install_dependencies", r.exc)
  /\ stages' = Append(stages, "install_dependencies")
  /\ log' = log \o DepsPlan.logs
  /\ UNCHANGED <<system, onPath, SHELL, assets, targetDir, targetFiles, rc,
                 exitCode, rc_file, pre, prev, runs>>

----------------------------------------------------------------------------
\* setup_files

CopyOutcomes == {"ok", "open_fail", "partial", "chmod_fail"}

OSError(path) == [type |-> "OSError", args |-> <<path>>, stage |-> "setup_files"]

\* The loop body without the os.path.exists(src) test: a missing source makes
\* shutil.copy2 raise.
CopyAssetUnguarded(filename, dst, outcome) ==
  IF filename \in assets /\ outcome = "ok"
  THEN [dst |-> "exec", logs |-> <<Msg("Copied", <<filename, target_dir>>, GREEN)>>,
        exc |-> NoExc, nf |-> 0]
  ELSE [dst |-> dst, logs |-> <<>>, exc |-> OSError(filename),
        nf |-> IF filename \in assets THEN 1 ELSE 0]

\* One pass of the loop body for the asset `filename`: the destination's
\* state afterwards, what is logged, and the exception raised (or NoExc).
\* shutil.copy2 may fail before it opens the destination or partway through;
\* os.chmod may fail after a complete copy.
CopyAsset(filename, dst, outcome) ==
  IF filename \in assets THEN
    IF outcome = "ok"
    THEN [dst |-> "exec", logs |-> <<Msg("Copied", <<filename, target_dir>>, GREEN)>>,
          exc |-> NoExc, nf |-> 0]
    ELSE IF outcome = "open_fail"
    THEN [dst |-> dst, logs |-> <<>>, exc |-> OSError(filename), nf |-> 1]
    ELSE IF outcome = "partial"
    THEN [dst |-> "partial", logs |-> <<>>, exc |-> OSError(filename), nf |-> 1]
    ELSE [dst |-> "copied", logs |-> <<>>, exc |-> OSError(filename), nf |-> 1]
  ELSE [dst |-> dst,
        logs |-> <<Msg("Warning: Asset not found", <<filename, "assets">>, RED)>>,
        exc |-> NoExc, nf |-> 0]

RECURSIVE CopyLoop(_, _, _)
\* for filename in files_to_copy, from the i-th on.
CopyLoop(i, tf, outs) ==
  IF i > Len(files_to_copy) THEN [files |-> tf, logs |-> <<>>, exc |-> NoExc, nf |-> 0]
  ELSE LET f == files_to_copy[i]
           r == CopyAsset(f, tf[f], outs[i])
           tf2 == [tf EXCEPT ![f] = r.dst]
       IN IF r.exc # NoExc
          THEN [files |-> tf2, logs |-> r.logs, exc |-> r.exc, nf |-> r.nf]
          ELSE LET rest == CopyLoop(i + 1, tf2, outs)
               IN [files |-> rest.files, logs |-> r.logs \o rest.logs,
                   exc |-> rest.exc, nf |-> r.nf + rest.nf]

\* The whole of setup_files, os.makedirs failing when mk = "fail".
SetupFilesResult(mk, outs) ==
  IF ~targetDir /\ mk = "fail"
  THEN [dir |-> FALSE, files |-> targetFiles, logs |-> <<>>,
        exc |-> OSError(target_dir), nf |-> 1]
  ELSE LET created == IF targetDir THEN <<>>
                      ELSE <<Msg("Created directory", <<target_dir>>, GREEN)>>
           r == CopyLoop(1, targetFiles, outs)
       IN [dir |-> TRUE, files |-> r.files, logs |-> created \o r.logs,
           exc |-> r.exc, nf |-> r.nf]

SetupFiles ==
  /\ pc = "setup_files"
  /\ \E mk \in Budgeted({"ok", "fail"}, "ok"),
        outs \in [1..Len(files_to_copy) -> Budgeted(CopyOutcomes, "ok")] :
       LET r == SetupFilesResult(mk, outs)
       IN /\ faults + r.nf <= MaxFaults
          /\ faults' = faults + r.nf
          /\ targetDir' = r.dir
          /\ targetFiles' = r.files
          /\ log' = log \o r.logs
          /\ exc' = r.exc
          /\ pc' = AfterStage("setup_files", r.exc)
  /\ stages' = Append(stages, "setup_files")
  /\ UNCHANGED <<system, onPath, SHELL, assets, rc, cmds, exitCode, rc_file,
                 pre, prev, runs>>

----------------------------------------------------------------------------
\* configure_shell

\* The same choice with "bash" tested before "zsh".
ChooseRcFileBashFirst(shell, sys) ==
  IF Contains(bash, shell)
  THEN (IF sys = "Darwin" THEN ".bash_profile" ELSE ".bashrc")
  ELSE IF Contains(zsh, shell) THEN ".zshrc"
  ELSE None

\* Lines 74-77: the resource file for this SHELL and OS, or None.
ChooseRcFile(shell, sys) ==
  IF Contains(zsh, shell) THEN ".zshrc"
  ELSE IF Contains(bash, shell)
  THEN (IF sys = "Darwin" THEN ".bash_profile" ELSE ".bashrc")
  ELSE None

config_lines(install_path) ==
  << <<NL, "# Secret Manager Configuration">>,
     <<"export ", MarkerA, MarkerB, "=", install_path, "/manage-secrets.sh">>,
     <<"alias secret-add='$", MarkerA, MarkerB, " add'">>,
     <<"alias secret-ls='$", MarkerA, MarkerB, " ls'">>,
     <<"alias secret-apply='$", MarkerA, MarkerB, " apply'">> >>

\* What the two f.write calls hand to the file.
Written(install_path) == Join(config_lines(install_path), <<NL>>) \o <<NL>>

\* A test for a marker the block does not contain.
AlreadyConfiguredOtherMarker(content) == Contains(<<"SECRET_MANAGER", MarkerB>>, content)

\* "SECRETS_MANAGER_PATH" in content
AlreadyConfigured(content) == Contains(Marker, content)

\* The text of a file that may not exist (appending creates it).
TextOf(c) == IF c = Absent THEN <<>> ELSE c

\* The file opened with "w" instead of "a": what it held is lost.
AppendedTruncating(old, data, k) == SubSeq(data, 1, k)

\* open(rc_file, "a") followed by the writes: the file afterwards when the
\* first k tokens reached it.
Appended(old, data, k) == TextOf(old) \o SubSeq(data, 1, k)

IoOutcomes ==
  {[kind |-> "ok", k |-> 0], [kind |-> "read_fail", k |-> 0],
   [kind |-> "open_fail", k |-> 0]}
    \cup {[kind |-> "write_fail", k |-> k] : k \in 0..(Len(Written(target_dir)) - 1)}

\* Lines 94-111 for the chosen file: the file afterwards, what is logged and
\* whether an I/O failure was met.  Every exception is caught at line 110.
UpdateRc(f, old, install_path, o) ==
  LET failed == <<Msg("Failed to update", <<f>>, RED)>>
      data == Written(install_path)
  IN IF old # Absent /\ o.kind = "read_fail"
     THEN [text |-> old, logs |-> failed, nf |-> 1]
     ELSE IF old # Absent /\ AlreadyConfigured(old)
     THEN [text |-> old,
           logs |-> <<Msg("Configuration already exists in RC file. Skipping append.", <<>>, YELLOW)>>,
           nf |-> 0]
     ELSE IF o.kind = "open_fail"
     THEN [text |-> old, logs |-> failed, nf |-> 1]
     ELSE IF o.kind = "write_fail"
     THEN [text |-> Appended(old, data, o.k), logs |-> failed, nf |-> 1]
     ELSE [text |-> Appended(old, data, Len(data)),
           logs |-> <<Msg("Successfully configured", <<f>>, GREEN),
                      Msg("IMPORTANT: Please restart your terminal or run:", <<>>, YELLOW),
                      Msg("source", <<f>>, YELLOW)>>,
           nf |-> 0]

ConfigureShell ==
  /\ pc = "configure_shell"
  /\ LET f == ChooseRcFile(EnvGetShell, system)
     IN /\ rc_file' = f
        /\ IF f = None
           THEN /\ log' = Append(log, Msg("Could not detect shell RC file. Please manually add configuration.", <<>>, RED))
                /\ UNCHANGED <<rc, faults>>
           ELSE \E o \in Budgeted(IoOutcomes, [kind |-> "ok", k |-> 0]) :
                  LET r == UpdateRc(f, rc[f], target_dir, o)
                  IN /\ faults + r.nf <= MaxFaults
                     /\ faults' = faults + r.nf
                     /\ rc' = [rc EXCEPT ![f] = r.text]
                     /\ log' = Append(log, Msg("Configuring", <<f>>, YELLOW)) \o r.logs
  /\ stages' = Append(stages, "configure_shell")
  /\ exc' = NoExc
  /\ pc' = AfterStage("configure_shell", NoExc)
  /\ UNCHANGED <<system, onPath, SHELL, assets, targetDir, targetFiles, cmds,
                 exitCode, pre, prev, runs>>

----------------------------------------------------------------------------
\* main

NoPrev == [exitCode |-> NoExit, failed |-> FALSE, rc |-> [f \in RcFiles |-> Absent]]

StartMain ==
  /\ pc \in {"idle", "exited"}
  /\ runs < MaxRuns
  /\ runs' = runs + 1
  /\ prev' = IF pc = "idle" THEN NoPrev
             ELSE [exitCode |-> exitCode, failed |-> Logged("Failed to update"),
                   rc |-> pre.rc]
  /\ pre' = [targetDir |-> targetDir, targetFiles |-> targetFiles, rc |-> rc,
             assets |-> assets]
  /\ log' = <<Msg("=== Secret Manager Installer ===", <<>>, GREEN)>>
  /\ stages' = <<>>
  /\ cmds' = <<>>
  /\ exc' = NoExc
  /\ exitCode' = NoExit
  /\ rc_file' = None
  /\ pc' = Stages[1]
  /\ UNCHANGED <<system, onPath, SHELL, assets, targetDir, targetFiles, rc, faults>>

\* Line 120 and the return from main(): the process ends with code 0.
Complete ==
  /\ pc = "complete"
  /\ log' = Append(log, Msg("Installation Complete!", <<>>, GREEN))
  /\ exitCode' = 0
  /\ pc' = "exited"
  /\ UNCHANGED <<system, onPath, SHELL, assets, targetDir, targetFiles, rc,
                 stages, cmds, exc, rc_file, pre, prev, runs, faults>>

\* Lines 121-123: except Exception, log, sys.exit(1).
HandleException ==
  /\ pc = "except"
  /\ log' = Append(log, Msg("Installation failed", StrExc(exc), RED))
  /\ exitCode' = 1
  /\ pc' = "exited"
  /\ UNCHANGED <<system, onPath, SHELL, assets, targetDir, targetFiles, rc,
                 stages, cmds, exc, rc_file, pre, prev, runs, faults>>

\* Between runs an asset source may disappear from the installer's assets
\* directory; line 60 looks for it anew in every run.
RemoveAsset ==
  /\ pc \in {"idle", "exited"}
  /\ runs < MaxRuns
  /\ faults < MaxFaults
  /\ faults' = faults + 1
  /\ \E f \in assets : assets' = assets \ {f}
  /\ UNCHANGED <<system, onPath, SHELL, targetDir, targetFiles, rc, pc, stages,
                 cmds, log, exc, exitCode, rc_file, pre, prev, runs>>

Init ==
  /\ system \in Systems
  /\ onPath \in {{}} \cup {{b} : b \in Binaries}
  /\ SHELL \in Shells
  /\ assets = Files
  /\ targetDir = FALSE
  /\ targetFiles = [f \in Files |-> "absent"]
  /\ \E c \in {Absent, UserText} : rc = [f \in RcFiles |-> c]
  /\ pc = "idle"
  /\ stages = <<>>
  /\ cmds = <<>>
  /\ log = <<>>
  /\ exc = NoExc
  /\ exitCode = NoExit
  /\ rc_file = None
  /\ pre = [targetDir |-> targetDir, targetFiles |-> targetFiles, rc |-> rc,
            assets |-> assets]
  /\ prev = NoPrev
  /\ runs = 0
  /\ faults = 0

Next ==
  \/ StartMain
  \/ InstallDependencies
  \/ SetupFiles
  \/ ConfigureShell
  \/ Complete
  \/ HandleException
  \/ RemoveAsset

Spec == Init /\ [][Next]_vars

----------------------------------------------------------------------------
\* Properties

Block == Written(target_dir)
Started(s) == \E i \in 1..Len(stages) : stages[i] = s
Returned(s) == Started(s) /\ exc.stage # s
CountBlocks(text) ==
  Cardinality({i \in 0..Len(text) :
                 i + Len(Block) <= Len(text) /\ SubSeq(text, i + 1, i + Len(Block)) = Block})
AlreadyExists == "Configuration already exists in RC file. Skipping append."
CleanExit == pc = "exited" /\ exitCode = 0 /\ ~Logged("Failed to update")

\* C1: two runs in succession in the same environment, both ending with exit
\* code 0 and without an I/O failure on the resource file, the file free of
\* the marker before the first: the first appended the block, the second
\* logged that the configuration exists and left the file alone, and the
\* file holds exactly one block.
C1_SecondRunAddsNothing ==
  (/\ CleanExit
   /\ runs >= 2
   /\ prev.exitCode = 0 /\ ~prev.failed
   /\ rc_file # None
   /\ ~AlreadyConfigured(TextOf(prev.rc[rc_file])))
  => /\ pre.rc[rc_file] = TextOf(prev.rc[rc_file]) \o Block
     /\ rc = pre.rc
     /\ Logged(AlreadyExists)
     /\ CountBlocks(rc[rc_file]) = 1

C1_Witness ==
  /\ CleanExit /\ runs = 2 /\ prev.exitCode = 0 /\ ~prev.failed
  /\ rc_file = ".bashrc"
  /\ prev.rc[rc_file] = UserText
  /\ rc[rc_file] = UserText \o Block
  /\ Logged(AlreadyExists)

RequiredFailed ==
  \E i \in 1..Len(cmds) : cmds[i].check /\ cmds[i].outcome # "ok"

AllSpawned ==
  \A i \in 1..Len(cmds) : cmds[i].outcome # "nospawn"

\* C2: main() exits with code 1 only when a required external command
\* failed; every other failure is caught where it occurs and the run ends
\* with exit code 0.  Stated for the runs in which every command could be
\* spawned (whether a command is required is read off a command that ran).
C2_OnlyRequiredCommandIsFatal ==
  (pc = "exited" /\ AllSpawned) => (exitCode = 1 <=> RequiredFailed)

AptHost == system = "Linux" /\ Which("apt-get")
NonZero(i) == i \in 1..Len(cmds) /\ cmds[i].outcome = "nonzero"

\* C3: on a Linux host with apt-get, a required command that exits non-zero
\* ends the run with exit code 1 and an error message naming the command,
\* and the success message is never logged.
C3_AptFailureIsFatal ==
  \A i \in 1..2 :
    (AptHost /\ NonZero(i))
    => /\ ~Logged("Installation Complete!")
       /\ pc \in {"except", "exited"}
       /\ cmds[i].argv = AptCommands[i].argv
       /\ pc = "exited"
          => /\ exitCode = 1
             /\ \E j \in 1..Len(log) :
                  /\ log[j].text = "Installation failed"
                  /\ log[j].color = RED
                  /\ Contains(cmds[i].argv, log[j].args)

C3_Witness ==
  /\ AptHost /\ NonZero(2) /\ pc = "exited" /\ exitCode = 1
  /\ cmds[1].outcome = "ok"

CaskFailed ==
  /\ system = "Darwin" /\ Which("brew")
  /\ Started("install_dependencies")
  /\ NonZero(1)

\* C4: on macOS with brew, after the optional cask install exits non-zero the
\* required install of jq and gnupg is still attempted, and the exit code is
\* what the rest of the run makes it: 0 when the required command succeeds
\* and no later stage raises, 1 otherwise.
C4_OptionalFailureIgnored ==
  CaskFailed
  => /\ cmds[1].argv = <<"brew", "install", "--cask", "keepassxc">>
     /\ Len(cmds) = 2
     /\ cmds[2].argv = <<"brew", "install", "jq", "gnupg">>
     /\ pc = "exited"
        => (exitCode = 0 <=> (cmds[2].outcome = "ok" /\ exc = NoExc))

C4_Witness ==
  CaskFailed /\ pc = "exited" /\ exitCode = 0 /\ cmds[2].outcome = "ok"

\* C5: the resource file is chosen from SHELL and the OS by case-sensitive
\* substring match, "zsh" before "bash"; with neither in SHELL no file is
\* chosen, a warning is logged and no resource file is created or modified.
C5_RcFileChoice ==
  Started("configure_shell")
  => LET sh == IF SHELL = Unset THEN <<>> ELSE SHELL
         hasZsh == \E i \in 1..Len(sh) :
                     i + 2 <= Len(sh) /\ SubSeq(sh, i, i + 2) = <<"z", "s", "h">>
         hasBash == \E i \in 1..Len(sh) :
                      i + 3 <= Len(sh) /\ SubSeq(sh, i, i + 3) = <<"b", "a", "s", "h">>
     IN /\ hasZsh => rc_file = ".zshrc"
        /\ (~hasZsh /\ hasBash /\ system = "Darwin") => rc_file = ".bash_profile"
        /\ (~hasZsh /\ hasBash /\ system # "Darwin") => rc_file = ".bashrc"
        /\ (~hasZsh /\ ~hasBash)
           => /\ rc_file = None
              /\ Logged("Could not detect shell RC file. Please manually add configuration.")
              /\ rc = pre.rc

C5_Witness ==
  /\ Started("configure_shell")
  /\ SHELL = <<"/", "b", "a", "s", "h", "/", "z", "s", "h">>
  /\ rc_file = ".zshrc"
  /\ rc[".zshrc"] = UserText \o Block

MissingWarning(f) == LoggedWith("Warning: Asset not found", <<f, "assets">>)

\* C6 as stated: an asset source absent when setup_files runs: the run exits
\* with code 0, a warning names the asset, and the asset is not in the
\* target directory afterwards, whatever the directory held before.
C6_MissingAssetOmitted ==
  \A f \in Files :
    (pc = "exited" /\ Started("setup_files") /\ f \notin pre.assets)
    => /\ exitCode = 0
       /\ MissingWarning(f)
       /\ targetFiles[f] = "absent"

\* C6 amended: an asset whose source is absent is not copied: the absence
\* raises nothing and the asset's entry in the target directory stays as the
\* run found it (a copy from an earlier run stays); once setup_files has
\* returned, a warning naming the asset has been logged and main() exits
\* with code 0.
C6_MissingAssetLeftAsFound ==
  \A f \in Files :
    (Started("setup_files") /\ f \notin pre.assets)
    => /\ targetFiles[f] = pre.targetFiles[f]
       /\ exc.args # <<f>>
       /\ Returned("setup_files")
          => /\ MissingWarning(f)
             /\ exc = NoExc
             /\ pc = "exited" => exitCode = 0

C6_Witness ==
  \E f \in Files :
    /\ pc = "exited" /\ exitCode = 0 /\ runs = 2
    /\ f \notin pre.assets
    /\ MissingWarning(f)
    /\ pre.targetFiles[f] = "exec"
    /\ targetFiles[f] = "exec"

ManagerAbsent ==
  \/ system = "Darwin" /\ "brew" \notin onPath
  \/ system = "Linux" /\ "apt-get" \notin onPath
  \/ system = "Windows" /\ "choco" \notin onPath
  \/ system \notin {"Darwin", "Linux", "Windows"}

ManualGuidance ==
  \E j \in 1..Len(log) :
    /\ log[j].color = RED
    /\ Contains(<<"keepassxc", "jq">>, log[j].args)
    /\ log[j].text \in {"Homebrew not found. Please install manually",
                        "apt-get not found. Please install manually",
                        "Chocolatey not found. Please install manually",
                        "Unsupported OS. Please manually install"}

\* C7: with the platform's package manager absent (or the OS unsupported),
\* install_dependencies runs no command, logs manual-install guidance and
\* returns, and the run goes on to setup_files.
C7_AbsentManagerNotFatal ==
  (ManagerAbsent /\ Started("install_dependencies"))
  => /\ cmds = <<>>
     /\ ManualGuidance
     /\ exc.stage # "install_dependencies"
     /\ pc = "setup_files" \/ Started("setup_files")

C7_Witness ==
  /\ system = "Linux" /\ onPath = {"brew"}
  /\ Started("setup_files") /\ cmds = <<>> /\ ManualGuidance

\* C8: the failure of a command run with check=False is reported to the
\* logger at warning severity before execution continues.
C8_OptionalFailureLogged ==
  CaskFailed
  => \E j \in 1..Len(log) :
       /\ log[j].color = YELLOW
       /\ Contains(cmds[1].argv, log[j].args)

Order == <<"install_dependencies", "setup_files", "configure_shell">>

\* C9: the stages start in the order install_dependencies, setup_files,
\* configure_shell, each after the one before it has returned; once a stage
\* has raised no later stage starts; and a run that install_dependencies
\* ended leaves the install directory and the resource files as it found
\* them.
C9_StagesInOrder ==
  /\ IsPrefix(stages, Order)
  /\ \A i \in 1..Len(Order) : pc = Order[i] => stages = SubSeq(Order, 1, i - 1)
  /\ exc # NoExc => (stages # <<>> /\ stages[Len(stages)] = exc.stage)
  /\ exc.stage = "install_dependencies"
     => /\ targetDir = pre.targetDir
        /\ targetFiles = pre.targetFiles
        /\ rc = pre.rc

C9_Witness ==
  /\ pc = "exited" /\ exitCode = 1 /\ runs = 2
  /\ exc.stage = "install_dependencies"
  /\ stages = <<"install_dependencies">>
  /\ pre.targetDir /\ targetFiles = [f \in Files |-> "exec"]
  /\ CountBlocks(rc[".zshrc"]) = 1

\* C10 as stated: in every reachable state, also after a write that failed
\* partway, each resource file holds no part of the block (nothing of its
\* five lines; the blank line before them does not count) or the complete
\* block.
C10_AllOrNothing ==
  \A f \in RcFiles :
    \E base \in {<<>>, UserText} :
      TextOf(rc[f]) \in {base, base \o <<NL>>, base \o Block}

\* C10 amended: configure_shell never rewrites or removes what a resource
\* file holds: a run leaves each file as it found it (always so for a file
\* that holds the marker, and for every file but the chosen one) or appends
\* to it; an append that completes adds the complete block, and only a
\* write that fails partway leaves a proper prefix of the block behind.
C10_AppendOnly ==
  \A f \in RcFiles :
    /\ pre.rc[f] # Absent => rc[f] # Absent
    /\ \E k \in 0..Len(Block) :
         /\ TextOf(rc[f]) = TextOf(pre.rc[f]) \o SubSeq(Block, 1, k)
         /\ k > 0 => (f = rc_file /\ ~AlreadyConfigured(TextOf(pre.rc[f])))
         /\ k \notin {0, Len(Block)} => Logged("Failed to update")
         /\ (f = rc_file /\ Logged("Successfully configured")) => k = Len(Block)

C10_Witness ==
  /\ rc_file = ".zshrc"
  /\ Logged("Failed to update")
  /\ rc[rc_file] = UserText \o SubSeq(Block, 1, 9)
  /\ pc = "exited" /\ exitCode = 0

====
